---------------------------- MODULE Spec2Model ----------------------------
(***************************************************************************)
(* Model of the infinite-storage-rs codec (src/src/etcher.rs,              *)
(* src/src/source.rs, src/src/settings.rs, src/src/tasks/embed.rs):        *)
(* a payload is written block by block onto video frames by worker         *)
(* threads, an instruction frame is put in front, and `read` walks the     *)
(* frames of a video to rebuild the payload.                               *)
(*                                                                         *)
(* An image (opencv Mat) is kept at block granularity: every pixel of a    *)
(* block is written with the same BGR triple, so a Mat is its pixel size,  *)
(* the block side it was written with and the row-major list of block      *)
(* triples.  Blocks a fresh Mat never had written hold the uninitialised   *)
(* bytes of Mat::new_rows_cols, chosen when the Mat is allocated.          *)
(***************************************************************************)
EXTENDS Integers, Sequences, FiniteSets, TLC

\* ------------------------------------------------------------------ bounds
\* longest payload, in bytes, of the enumerated payloads
MaxLen == 6
\* most payload frames an enumerated input may need
MaxFrames == 4

\* ------------------------------------------------------- program constants
instruction_size == 5
INSTRUCTION_SIZE == 5
I32_MAX == 2147483647

\* ------------------------------------------------------------- input sets
\* first bytes of the payloads (0xA5 = 10100101, 0x5A = 01011010)
Seeds == {165, 90}

\* byte k of the payload that starts with `seed`
PatternByte(seed, k) == (seed + 41 * (k - 1)) % 256

\* payload lengths of the end-to-end scenarios (13 and 24 bytes at 12 bytes
\* per frame)
ScenarioLens == {13, 24}

\* what an unwritten byte of a fresh Mat may read as
UninitVals == {0, 255}

\* worker counts of Settings.threads
WorkerCounts == {1, 2, 4}

\* (size, width, height) of Settings
Geometries ==
    { <<50, 80, 50>>,    \* 1 block per frame, 160 instruction blocks
      <<25, 80, 50>>,    \* 3 x 2 blocks
      <<40, 80, 50>>,    \* 2 x 1 blocks, height not a multiple of size
      <<25, 90, 50>>,    \* 3 x 2 blocks written, 90*50/25^2 = 7 counted
      <<20, 80, 80>>,    \* 4 x 4 blocks, room for two bytes of bits
      <<2, 4, 4>>,       \* 2 x 2 blocks, no room for an instruction block
      <<1, 4, 2>>,       \* 4 x 2 blocks, no room for an instruction block
      <<50, 40, 80>>,    \* block > width: no block, 40*80/50^2 = 1 counted
      <<50, 80, 40>>,    \* block > height: no block, 1 counted
      <<100, 80, 50>> }  \* block > width and height: 80*50/100^2 = 0 counted

\* ----------------------------------------------------------------- helpers
Take(s, n) == SubSeq(s, 1, n)
Drop(s, n) == SubSeq(s, n + 1, Len(s))

RECURSIVE Flatten(_)
Flatten(ss) == IF ss = <<>> THEN <<>> ELSE Head(ss) \o Flatten(Tail(ss))

\* ------------------------------------------------- u32 values (settings.rs)
\* A u32 is kept as two 16-bit halves so that u32::MAX is representable.
U32(n) == [hi |-> (n \div 65536) % 65536, lo |-> n % 65536]
U32_MAX == [hi |-> 65535, lo |-> 65535]
U32_MIN == [hi |-> 0, lo |-> 0]
\* `x as i32` of a u32
AsI32(w) == IF w.hi >= 32768 THEN (w.hi - 65536) * 65536 + w.lo
            ELSE w.hi * 65536 + w.lo

\* format!("{:b}", n): the binary digits of n without leading zeros
RECURSIVE FormatB(_)
FormatB(n) == IF n < 2 THEN <<n>> ELSE Append(FormatB(n \div 2), n % 2)

\* the padding loop left out
NoPadZeros(bits, missing_0) == bits

\* bits.insert(0, '0') repeated `missing_0` times
RECURSIVE PadZeros(_, _)
PadZeros(bits, missing_0) ==
    IF missing_0 <= 0 THEN bits ELSE PadZeros(<<0>> \o bits, missing_0 - 1)

\* format!("{:b}", w) of a u32 kept as two halves
FormatB32(w) ==
    IF w.hi = 0 THEN FormatB(w.lo)
    ELSE LET low == FormatB(w.lo)
         IN  FormatB(w.hi) \o PadZeros(low, 16 - Len(low))

\* --------------------------------------------------- bit packing (etcher.rs)
RECURSIVE rip_binary(_)
rip_binary(byte_data) ==
    IF byte_data = <<>> THEN <<>>
    ELSE LET bits    == FormatB(Head(byte_data))
             padded  == PadZeros(bits, 8 - Len(bits))
         IN  [k \in 1..Len(padded) |-> padded[k] = 1] \o rip_binary(Tail(byte_data))

RECURSIVE rip_binary_u32(_)
rip_binary_u32(bytes) ==
    IF bytes = <<>> THEN <<>>
    ELSE LET bits    == FormatB32(Head(bytes))
             padded  == PadZeros(bits, 32 - Len(bits))
         IN  [k \in 1..Len(padded) |-> padded[k] = 1] \o rip_binary_u32(Tail(bytes))

\* buffer.iter().fold(0u8, |v, b| (v << 1) + (*b as u8))
RECURSIVE FoldU8(_, _)
FoldU8(v, buffer) ==
    IF buffer = <<>> THEN v
    ELSE FoldU8(((v * 2) % 256) + (IF Head(buffer) THEN 1 ELSE 0), Tail(buffer))

\* the loop of translate_u8, a full buffer at a time: the buffer is folded
\* and cleared whenever it holds 8 bits, a shorter last buffer is dropped
RECURSIVE TranslateU8From(_, _)
TranslateU8From(binary_data, byte_data) ==
    IF Len(binary_data) < 8 THEN byte_data
    ELSE TranslateU8From(Drop(binary_data, 8),
                         Append(byte_data, FoldU8(0, Take(binary_data, 8))))

translate_u8(binary_data) == TranslateU8From(binary_data, <<>>)

\* the fold of translate_u8 reused with its u8 accumulator
FoldU32Narrow(v, buffer) == [hi |-> 0, lo |-> FoldU8(v.lo % 256, buffer)]

\* buffer.iter().fold(0u32, |v, b| (v << 1) + (*b as u32)) on the two halves
RECURSIVE FoldU32(_, _)
FoldU32(v, buffer) ==
    IF buffer = <<>> THEN v
    ELSE FoldU32([hi |-> ((v.hi * 2) + (v.lo \div 32768)) % 65536,
                  lo |-> ((v.lo * 2) % 65536) + (IF Head(buffer) THEN 1 ELSE 0)],
                 Tail(buffer))

\* the loop of translate_u32, a full buffer of 32 bits at a time
RECURSIVE TranslateU32From(_, _)
TranslateU32From(binary_data, byte_data) ==
    IF Len(binary_data) < 32 THEN byte_data
    ELSE TranslateU32From(Drop(binary_data, 32),
                          Append(byte_data, FoldU32(U32_MIN, Take(binary_data, 32))))

translate_u32(binary_data) == TranslateU32From(binary_data, <<>>)

\* ------------------------------------------------ settings (settings.rs)
OutputModes == {"Color", "Binary"}

Settings_new(size, threads, fps, width, height) ==
    [size |-> size, threads |-> threads, fps |-> fps, width |-> width, height |-> height]

Data_from_binary(binary) == [bytes |-> <<>>, binary |-> binary, out_mode |-> "Binary"]
Data_from_color(bytes) == [bytes |-> bytes, binary |-> <<>>, out_mode |-> "Color"]

\* --------------------------------------------------- canvas (source.rs)
Size_new(width, height) == [width |-> width, height |-> height]

\* Mat::new_rows_cols(rows, cols, CV_8UC3): nothing is written to the buffer,
\* every byte reads as `uninit` until a block is etched over it.
Mat_new_rows_cols(rows, cols, bsize, uninit) ==
    [rows |-> rows, cols |-> cols, bsize |-> bsize,
     blocks |-> [k \in 1..((cols \div bsize) * (rows \div bsize)) |-> <<uninit, uninit, uninit>>]]

\* `written` counts the etch_pixel calls made on the canvas (bookkeeping of
\* the model; the program keeps no such field).
EmbedSource_new(size, width, height, uninit) ==
    [image       |-> Mat_new_rows_cols(height, width, size, uninit),
     size        |-> size,
     frame_size  |-> Size_new(width, height),
     actual_size |-> Size_new(width - (width % size), height - (height % size)),
     written     |-> 0]

\* the height check made whatever the instruction flag says
EmbedSource_from_strict(image, size, instuction) ==
    IF size = 0 THEN [res |-> "Panic"]
    ELSE IF image.rows % size # 0 THEN [res |-> "Err"]
    ELSE [res    |-> "Ok",
          source |-> [image       |-> image,
                      size        |-> size,
                      frame_size  |-> Size_new(image.cols, image.rows),
                      actual_size |-> Size_new(image.cols - (image.cols % size),
                                               image.rows - (image.rows % size)),
                      written     |-> 0]]

\* Result<EmbedSource, String>; `height % size` with size = 0 panics.
EmbedSource_from(image, size, instuction) ==
    IF size = 0 THEN [res |-> "Panic"]
    ELSE IF image.rows % size # 0 /\ ~instuction THEN [res |-> "Err"]
    ELSE [res    |-> "Ok",
          source |-> [image       |-> image,
                      size        |-> size,
                      frame_size  |-> Size_new(image.cols, image.rows),
                      actual_size |-> Size_new(image.cols - (image.cols % size),
                                               image.rows - (image.rows % size)),
                      written     |-> 0]]

\* (0..n).step_by(step)
StepBy(n, step) == [k \in 1..((n + step - 1) \div step) |-> (k - 1) * step]

\* the two loops exchanged: x outer, y inner
ScanColumnMajor(source) ==
    LET xs == StepBy(source.actual_size.width, source.size)
        ys == StepBy(source.actual_size.height, source.size)
    IN  [k \in 1..(Len(xs) * Len(ys)) |->
            <<xs[((k - 1) \div Len(ys)) + 1], ys[((k - 1) % Len(ys)) + 1]>>]

\* for y in (0..height).step_by(size) { for x in (0..width).step_by(size) {..} }
Scan(source) ==
    LET xs == StepBy(source.actual_size.width, source.size)
        ys == StepBy(source.actual_size.height, source.size)
    IN  [k \in 1..(Len(xs) * Len(ys)) |->
            <<xs[((k - 1) % Len(xs)) + 1], ys[((k - 1) \div Len(xs)) + 1]>>]

\* the block of the image that holds pixel (x, y)
BlockAt(image, x, y) ==
    (y \div image.bsize) * (image.cols \div image.bsize) + (x \div image.bsize) + 1

\* ------------------------------------------------- block codec (etcher.rs)
\* the size*size pixels of the block are summed and divided, per channel
get_pixel(frame, x, y) ==
    LET bgr == frame.image.blocks[BlockAt(frame.image, x, y)]
        n   == frame.size * frame.size
    IN  << (bgr[3] * n) \div n, (bgr[2] * n) \div n, (bgr[1] * n) \div n >>

\* the channels stored in the order they are given, not as BGR
etch_pixel_rgb(frame, rgb, x, y) ==
    [frame EXCEPT !.image.blocks[BlockAt(frame.image, x, y)] = << rgb[1], rgb[2], rgb[3] >>,
                  !.written = @ + 1]

etch_pixel(frame, rgb, x, y) ==
    [frame EXCEPT !.image.blocks[BlockAt(frame.image, x, y)] = << rgb[3], rgb[2], rgb[1] >>,
                  !.written = @ + 1]

\* ------------------------------------------------- frame codec (etcher.rs)
\* The loops of etch_color and etch_bw carry [res, source, global_index], with
\* res = "Go" while they run.
\* global_index counts from 0 as in Rust.

\* the body of etch_color's inner loop at block (x, y)
EtchColorBlock(st, data, x, y) ==
    IF st.global_index + 2 >= Len(data)
    THEN [st EXCEPT !.res = "Panic"]
    ELSE LET local_index == st.global_index
             rgb == << data[local_index + 1], data[local_index + 2], data[local_index + 3] >>
         IN  [res          |-> IF (st.global_index + 3) + 2 >= Len(data) THEN "Err" ELSE "Go",
              source       |-> etch_pixel(st.source, rgb, x, y),
              global_index |-> st.global_index + 3]

\* for x in (0..width).step_by(size), from the j-th x on
RECURSIVE EtchColorRow(_, _, _, _, _)
EtchColorRow(st, data, xs, j, y) ==
    IF st.res # "Go" \/ j > Len(xs) THEN st
    ELSE EtchColorRow(EtchColorBlock(st, data, xs[j], y), data, xs, j + 1, y)

\* for y in (0..height).step_by(size), from the i-th y on
RECURSIVE EtchColorRows(_, _, _, _, _)
EtchColorRows(st, data, xs, ys, i) ==
    IF st.res # "Go" THEN st
    ELSE IF i > Len(ys) THEN [st EXCEPT !.res = "Ok"]
    ELSE EtchColorRows(EtchColorRow(st, data, xs, 1, ys[i]), data, xs, ys, i + 1)

etch_color(source, data, global_index) ==
    EtchColorRows([res |-> "Go", source |-> source, global_index |-> global_index],
                  data,
                  StepBy(source.actual_size.width, source.size),
                  StepBy(source.actual_size.height, source.size), 1)

\* the loop body with the end of the data tested before the block is written
\* instead of after it
EtchBwBlockTestFirst(st, data, x, y) ==
    IF st.global_index >= Len(data)
    THEN [st EXCEPT !.res = "Err"]
    ELSE LET brightness == IF data[st.global_index + 1] = TRUE THEN 255 ELSE 0
         IN  [res          |-> "Go",
              source       |-> etch_pixel(st.source, << brightness, brightness, brightness >>, x, y),
              global_index |-> st.global_index + 1]

\* the body of etch_bw's inner loop at block (x, y)
EtchBwBlock(st, data, x, y) ==
    IF st.global_index >= Len(data)
    THEN [st EXCEPT !.res = "Panic"]
    ELSE LET local_index == st.global_index
             brightness == IF data[local_index + 1] = TRUE THEN 255 ELSE 0
             rgb == << brightness, brightness, brightness >>
         IN  [res          |-> IF st.global_index + 1 >= Len(data) THEN "Err" ELSE "Go",
              source       |-> etch_pixel(st.source, rgb, x, y),
              global_index |-> st.global_index + 1]

RECURSIVE EtchBwRow(_, _, _, _, _)
EtchBwRow(st, data, xs, j, y) ==
    IF st.res # "Go" \/ j > Len(xs) THEN st
    ELSE EtchBwRow(EtchBwBlock(st, data, xs[j], y), data, xs, j + 1, y)

RECURSIVE EtchBwRows(_, _, _, _, _)
EtchBwRows(st, data, xs, ys, i) ==
    IF st.res # "Go" THEN st
    ELSE IF i > Len(ys) THEN [st EXCEPT !.res = "Ok"]
    ELSE EtchBwRows(EtchBwRow(st, data, xs, 1, ys[i]), data, xs, ys, i + 1)

etch_bw(source, data, global_index) ==
    EtchBwRows([res |-> "Go", source |-> source, global_index |-> global_index],
               data,
               StepBy(source.actual_size.width, source.size),
               StepBy(source.actual_size.height, source.size), 1)

\* read_bw with the bit decided by `rgb[0] > 128`
read_bw_above(source, current_frame, final_frame, final_bit) ==
    LET scan == Scan(source)
        binary_data == [k \in 1..Len(scan) |-> get_pixel(source, scan[k][1], scan[k][2])[1] > 128]
    IN  IF current_frame = final_frame
        THEN IF final_bit < 0 \/ final_bit > Len(binary_data)
             THEN [res |-> "Panic", data |-> <<>>]
             ELSE [res |-> "Ok", data |-> Take(binary_data, final_bit)]
        ELSE [res |-> "Ok", data |-> binary_data]

\* binary_data[0..final_bit as usize] panics when the range is out of bounds
read_bw(source, current_frame, final_frame, final_bit) ==
    LET scan == Scan(source)
        binary_data == [k \in 1..Len(scan) |-> get_pixel(source, scan[k][1], scan[k][2])[1] >= 127]
    IN  IF current_frame = final_frame
        THEN IF final_bit < 0 \/ final_bit > Len(binary_data)
             THEN [res |-> "Panic", data |-> <<>>]
             ELSE [res |-> "Ok", data |-> Take(binary_data, final_bit)]
        ELSE [res |-> "Ok", data |-> binary_data]

read_color(source, current_frame, final_frame, final_byte) ==
    LET scan == Scan(source)
        byte_data == Flatten([k \in 1..Len(scan) |-> get_pixel(source, scan[k][1], scan[k][2])])
    IN  IF current_frame = final_frame
        THEN IF final_byte < 0 \/ final_byte > Len(byte_data)
             THEN [res |-> "Panic", data |-> <<>>]
             ELSE [res |-> "Ok", data |-> Take(byte_data, final_byte)]
        ELSE [res |-> "Ok", data |-> byte_data]

\* --------------------------------------------- instruction frame (etcher.rs)
\* units per frame as etch_instructions counts them: frame_size / size^2 in
\* both modes
InstructionFrameDataSize(settings) ==
    (settings.height * settings.width) \div (settings.size * settings.size)

\* the five words etch_instructions collects in u32_instructions
InstructionWords(settings, data) ==
    LET frame_size == settings.height * settings.width
        frame_data_size == InstructionFrameDataSize(settings)
        length == IF data.out_mode = "Color" THEN Len(data.bytes) ELSE Len(data.binary)
        final_byte == length % frame_data_size
        final_frame == (length \div frame_data_size)
                       + (IF length % frame_size # 0 THEN 1 ELSE 0)
    IN  << IF data.out_mode = "Color" THEN U32_MAX ELSE U32_MIN,
           U32(final_frame),
           U32(final_byte),
           U32(settings.size),
           U32_MAX >>

\* The result of etch_bw is matched and dropped: Ok and Err both fall through
\* to Ok(source).
etch_instructions(settings, data, uninit) ==
    LET instruction_data == rip_binary_u32(InstructionWords(settings, data))
        source == EmbedSource_new(instruction_size, settings.width, settings.height, uninit)
        etched == etch_bw(source, instruction_data, 0)
    IN  [res |-> "Ok", source |-> etched.source]

\* u32_data[0] .. u32_data[3] panic when the frame gave fewer than four words
read_instructions(source, threads) ==
    LET binary_data == read_bw(source, 0, 1, 0)
        u32_data == translate_u32(binary_data.data)
    IN  IF Len(u32_data) < 4 THEN [res |-> "Panic"]
        ELSE [res         |-> "Ok",
              out_mode    |-> IF u32_data[1] = U32_MAX THEN "Color" ELSE "Binary",
              final_frame |-> AsI32(u32_data[2]),
              final_byte  |-> AsI32(u32_data[3]),
              settings    |-> Settings_new(AsI32(u32_data[4]), threads, 1337,
                                           source.frame_size.width, source.frame_size.height)]

\* ------------------------------------------------ parallel encoder (etcher.rs)
\* slice.chunks(chunk_size)
RECURSIVE Chunks(_, _)
Chunks(slice, chunk_size) ==
    IF slice = <<>> THEN <<>>
    ELSE IF Len(slice) <= chunk_size THEN << slice >>
    ELSE << Take(slice, chunk_size) >> \o Chunks(Drop(slice, chunk_size), chunk_size)

\* units per frame as etch counts them: frame_size / size^2, times 3 in Color
FrameDataSize(settings, out_mode) ==
    LET frame_size == settings.width * settings.height
    IN  (frame_size \div (settings.size * settings.size)) * (IF out_mode = "Color" THEN 3 ELSE 1)

\* one frame of data a chunk, whatever the number of threads
ChunkDataSizeOneFrame(settings, out_mode, length) == FrameDataSize(settings, out_mode)

ChunkDataSize(settings, out_mode, length) ==
    LET frame_data_size == FrameDataSize(settings, out_mode)
        frame_length == length \div frame_data_size
        chunk_frame_size == (frame_length \div settings.threads) + 1
    IN  chunk_frame_size * frame_data_size

\* the chunks etch copies into its worker threads, in spawn order
EtchChunks(settings, data) ==
    IF data.out_mode = "Color"
    THEN Chunks(data.bytes, ChunkDataSize(settings, "Color", Len(data.bytes)))
    ELSE Chunks(data.binary, ChunkDataSize(settings, "Binary", Len(data.binary)))

\* ------------------------------------------------------------------ state
VARIABLES
    payload,          \* bytes of the input file
    mode,             \* output_mode chosen in run_embed
    settings,         \* Settings of the encode
    data,             \* Data handed to etch
    epc,              \* where the encoding main thread is
    spool,            \* the worker threads, in spawn order
    complete_frames,  \* etch's frame list
    joined,           \* number of workers joined so far
    video,            \* frames written through the VideoWriter
    stream,           \* frames the VideoCapture of `read` yields
    tamper,           \* what happened to the video between etch and read
    dpc,              \* where `read` is
    dec,              \* locals of `read`
    call              \* a single function under examination: its input and results

vars == << payload, mode, settings, data, epc, spool, complete_frames, joined,
           video, stream, tamper, dpc, dec, call >>

encVars == << data, epc, spool, complete_frames, joined, video >>
decVars == << stream, tamper, dpc, dec >>
\* what a run of the program never changes
inVars  == << payload, mode, settings, call >>

\* no function is examined on its own during a run of the program
NoCall == [fn |-> "none", stage |-> 0, input |-> <<>>, mid |-> <<>>, out |-> <<>>]

\* blocks a payload frame's scan visits, (width'/size) * (height'/size)
BlocksPerFrame(st) ==
    ((st.width - (st.width % st.size)) \div st.size)
    * ((st.height - (st.height % st.size)) \div st.size)

UnitsPerBlock(m) == IF m = "Color" THEN 3 ELSE 1

\* payload units: bytes in Color, bits in Binary
UnitCount(p, m) == IF m = "Color" THEN Len(p) ELSE 8 * Len(p)

Payloads ==
    { [k \in 1..n |-> PatternByte(seed, k)] : seed \in Seeds, n \in (0..MaxLen) \cup ScenarioLens }

Init ==
    /\ payload \in Payloads
    /\ mode \in OutputModes
    /\ \E g \in Geometries, t \in WorkerCounts :
          settings = Settings_new(g[1], t, 10, g[2], g[3])
    /\ IF BlocksPerFrame(settings) = 0
       THEN Len(payload) <= 1
       ELSE UnitCount(payload, mode) <= MaxFrames * BlocksPerFrame(settings) * UnitsPerBlock(mode)
    /\ data = [bytes |-> <<>>, binary |-> <<>>, out_mode |-> mode]
    /\ epc = "embed"
    /\ spool = <<>>
    /\ complete_frames = <<>>
    /\ joined = 0
    /\ video = <<>>
    /\ stream = <<>>
    /\ tamper = "none"
    /\ dpc = "idle"
    /\ dec = [out_mode |-> "Binary", final_frame |-> 0, final_byte |-> 0, size |-> 0,
              current_frame |-> 0, byte_data |-> <<>>]
    /\ call = NoCall

\* ---------------------------------------------------------------- encoder
\* rip_bytes without the is_empty check
rip_bytes_unchecked(file) == [res |-> "Ok", bytes |-> file]

\* rip_bytes: Err on an empty file
rip_bytes(file) == IF file = <<>> THEN [res |-> "Err"] ELSE [res |-> "Ok", bytes |-> file]

\* run_embed, from the match on output_mode up to the call of etch
RunEmbed ==
    /\ epc = "embed"
    /\ LET bytes == rip_bytes(payload)
       IN  IF bytes.res = "Err"
           THEN /\ epc' = "error"
                /\ data' = data
           ELSE /\ epc' = "etch"
                /\ data' = IF mode = "Color" THEN Data_from_color(bytes.bytes)
                           ELSE Data_from_binary(rip_binary(bytes.bytes))
    /\ UNCHANGED << spool, complete_frames, joined, video >>
    /\ UNCHANGED decVars
    /\ UNCHANGED inVars

\* etch, the match that cuts the data into chunks and spawns one thread each;
\* `length / frame_data_size` panics when frame_data_size is 0
EtchSpawn ==
    /\ epc = "etch"
    /\ IF FrameDataSize(settings, data.out_mode) = 0
       THEN /\ epc' = "panic"
            /\ spool' = spool
       ELSE /\ spool' = LET chunks == EtchChunks(settings, data)
                        IN  [k \in 1..Len(chunks) |->
                                [chunk_copy |-> chunks[k], index |-> 0, frames |-> <<>>,
                                 state |-> "running"]]
            /\ epc' = "spawned"
    /\ UNCHANGED << data, complete_frames, joined, video >>
    /\ UNCHANGED decVars
    /\ UNCHANGED inVars

\* one turn of the loop in a worker's closure: a fresh canvas is etched
\* and pushed; Err ends the loop, an index out of bounds panics the thread.
\* On a canvas without blocks etch_color and etch_bw return Ok with the index
\* where it was, and the loop goes on for ever: the model follows it for
\* MaxFrames turns.
WorkerStep(i) ==
    /\ epc \in {"spawned", "joining"}
    /\ spool[i].state = "running"
    /\ Len(spool[i].frames) < MaxFrames
    /\ \E uninit \in UninitVals :
          LET w == spool[i]
              source == EmbedSource_new(settings.size, settings.width, settings.height, uninit)
              r == IF data.out_mode = "Color"
                   THEN etch_color(source, w.chunk_copy, w.index)
                   ELSE etch_bw(source, w.chunk_copy, w.index)
          IN  spool' = [spool EXCEPT ![i] =
                  IF r.res = "Panic"
                  THEN [w EXCEPT !.state = "panicked"]
                  ELSE [w EXCEPT !.frames = Append(@, r.source),
                                 !.index = r.global_index,
                                 !.state = IF r.res = "Err" THEN "finished" ELSE "running"]]
    /\ UNCHANGED << data, epc, complete_frames, joined, video >>
    /\ UNCHANGED decVars
    /\ UNCHANGED inVars

\* etch: the instruction frame becomes the first element of complete_frames
EtchInstructions ==
    /\ epc = "spawned"
    /\ \E uninit \in UninitVals :
          LET r == etch_instructions(settings, data, uninit)
          IN  complete_frames' = << r.source >>
    /\ joined' = 0
    /\ epc' = "joining"
    /\ UNCHANGED << data, spool, video >>
    /\ UNCHANGED decVars
    /\ UNCHANGED inVars

\* a join loop that walks the spool from its last thread to its first
NextJoinReversed(sp, n) == Len(sp) - n

\* the worker etch joins next: `for thread in spool` walks the spawn order
NextJoin(sp, n) == n + 1

\* etch: thread.join().unwrap() and complete_frames.extend(frame_chunk)
Join ==
    /\ epc = "joining"
    /\ joined < Len(spool)
    /\ LET k == NextJoin(spool, joined)
       IN  /\ spool[k].state # "running"
           /\ IF spool[k].state = "panicked"
              THEN /\ epc' = "panic"
                   /\ UNCHANGED << complete_frames, joined >>
              ELSE /\ complete_frames' = complete_frames \o spool[k].frames
                   /\ joined' = joined + 1
                   /\ epc' = epc
    /\ UNCHANGED << data, spool, video >>
    /\ UNCHANGED decVars
    /\ UNCHANGED inVars

\* the VideoWriter opened and fed inside the join loop, with the frames
\* collected so far
WriteVideoEarly ==
    /\ epc = "joining"
    /\ IF Len(complete_frames) < 2
       THEN /\ epc' = "panic"
            /\ video' = video
       ELSE /\ video' = [k \in 1..Len(complete_frames) |-> complete_frames[k].image]
            /\ epc' = "written"
    /\ UNCHANGED << data, spool, complete_frames, joined >>
    /\ UNCHANGED decVars
    /\ UNCHANGED inVars

\* etch: the VideoWriter is opened with complete_frames[1].frame_size and
\* every frame's image is written
WriteVideo ==
    /\ epc = "joining"
    /\ joined = Len(spool)
    /\ IF Len(complete_frames) < 2
       THEN /\ epc' = "panic"
            /\ video' = video
       ELSE /\ video' = [k \in 1..Len(complete_frames) |-> complete_frames[k].image]
            /\ epc' = "written"
    /\ UNCHANGED << data, spool, complete_frames, joined >>
    /\ UNCHANGED decVars
    /\ UNCHANGED inVars

\* ------------------------------------------- the video between etch and read
\* words a damaged instruction frame may carry in place of a written one
BadWord1 == [hi |-> 0, lo |-> 7]
BadWord5 == [hi |-> 0, lo |-> 0]

\* the image with the 32 blocks of instruction word k (1..5) repainted as w
RepaintWord(image, k, w) ==
    LET bits == rip_binary_u32(<< w >>)
    IN  [image EXCEPT !.blocks =
            [j \in 1..Len(image.blocks) |->
                IF j > 32 * (k - 1) /\ j <= 32 * k
                THEN IF bits[j - 32 * (k - 1)] THEN << 255, 255, 255 >> ELSE << 0, 0, 0 >>
                ELSE image.blocks[j]]]

\* VideoCapture::from_file on the video as written (lossless container)
Deliver ==
    /\ epc = "written"
    /\ dpc = "idle"
    /\ stream' = video
    /\ tamper' = "none"
    /\ dpc' = "open"
    /\ UNCHANGED dec
    /\ UNCHANGED encVars
    /\ UNCHANGED inVars

\* the video lost its last n frames (the instruction frame is kept)
DeliverTruncated ==
    /\ epc = "written"
    /\ dpc = "idle"
    /\ \E n \in 1..(Len(video) - 1) : stream' = Take(video, Len(video) - n)
    /\ tamper' = "truncated"
    /\ dpc' = "open"
    /\ UNCHANGED dec
    /\ UNCHANGED encVars
    /\ UNCHANGED inVars

\* the video carries one more frame of the same size behind the last one
DeliverTrailing ==
    /\ epc = "written"
    /\ dpc = "idle"
    /\ \E v \in UninitVals :
          stream' = Append(video, Mat_new_rows_cols(settings.height, settings.width, settings.size, v))
    /\ tamper' = "trailing"
    /\ dpc' = "open"
    /\ UNCHANGED dec
    /\ UNCHANGED encVars
    /\ UNCHANGED inVars

\* the first frame carries a damaged word 1, word 4 or word 5
DeliverCorrupt ==
    /\ epc = "written"
    /\ dpc = "idle"
    /\ Len(video[1].blocks) >= 160
    /\ \E c \in { <<"word1", 1, BadWord1>>, <<"word4", 4, U32_MIN>>, <<"word5", 5, BadWord5>> } :
          /\ stream' = [video EXCEPT ![1] = RepaintWord(video[1], c[2], c[3])]
          /\ tamper' = c[1]
    /\ dpc' = "open"
    /\ UNCHANGED dec
    /\ UNCHANGED encVars
    /\ UNCHANGED inVars

\* ------------------------------------------------------- decoder (etcher.rs)
\* read, up to the loop: the first frame is parsed as the instruction frame
ReadOpen ==
    /\ dpc = "open"
    /\ LET instruction_source == EmbedSource_from(stream[1], INSTRUCTION_SIZE, TRUE)
           r == read_instructions(instruction_source.source, 1)
       IN  IF instruction_source.res # "Ok" \/ r.res # "Ok"
           THEN /\ dpc' = "panic"
                /\ dec' = dec
           ELSE /\ dpc' = "loop"
                /\ dec' = [out_mode      |-> r.out_mode,
                           final_frame   |-> r.final_frame,
                           final_byte    |-> r.final_byte,
                           size          |-> r.settings.size,
                           current_frame |-> 1,
                           byte_data     |-> <<>>]
    /\ UNCHANGED << stream, tamper >>
    /\ UNCHANGED encVars
    /\ UNCHANGED inVars

\* what one frame adds to byte_data (the match on out_mode in read's loop)
FrameData(source, d) ==
    IF d.out_mode = "Color"
    THEN read_color(source, d.current_frame, I32_MAX, d.final_byte)
    ELSE LET binary_data == read_bw(source, d.current_frame, d.final_frame, d.final_byte)
         IN  IF binary_data.res = "Ok"
             THEN [res |-> "Ok", data |-> translate_u8(binary_data.data)]
             ELSE binary_data

\* one turn of `while video.read(&mut frame)? && frame.cols() > 0`
ReadFrame ==
    /\ dpc = "loop"
    /\ dec.current_frame + 1 <= Len(stream)
    /\ LET frame == stream[dec.current_frame + 1]
           source == EmbedSource_from(frame, dec.size, FALSE)
       IN  IF source.res # "Ok"
           THEN /\ dpc' = "panic"
                /\ dec' = dec
           ELSE LET frame_data == FrameData(source.source, dec)
                IN  IF frame_data.res # "Ok"
                    THEN /\ dpc' = "panic"
                         /\ dec' = dec
                    ELSE /\ dpc' = dpc
                         /\ dec' = [dec EXCEPT !.byte_data = @ \o frame_data.data,
                                               !.current_frame = @ + 1]
    /\ UNCHANGED << stream, tamper >>
    /\ UNCHANGED encVars
    /\ UNCHANGED inVars

\* the video has no further frame: read returns Ok(byte_data)
ReadDone ==
    /\ dpc = "loop"
    /\ dec.current_frame + 1 > Len(stream)
    /\ dpc' = "done"
    /\ UNCHANGED << stream, tamper, dec >>
    /\ UNCHANGED encVars
    /\ UNCHANGED inVars

\* ------------------------------------------------------------ specification
Next ==
    \/ RunEmbed
    \/ EtchSpawn
    \/ \E i \in 1..Len(spool) : WorkerStep(i)
    \/ EtchInstructions
    \/ Join
    \/ WriteVideo
    \/ Deliver
    \/ DeliverTruncated
    \/ DeliverTrailing
    \/ DeliverCorrupt
    \/ ReadOpen
    \/ ReadFrame
    \/ ReadDone

Spec == Init /\ [][Next]_vars

\* ------------------------------------------- functions taken on their own
\* Each function of the codec is also run on its own, on inputs drawn from
\* small sets; `call` holds the input, the intermediate value and the result.
\* longest byte or word sequence handed to a function
MaxUnitLen == 2

\* bytes with and without leading zero bits (0x00, 0x01, 0x7F, 0x80, 0xA5, 0xFF)
UnitBytes == {0, 1, 127, 128, 165, 255}

\* sequences over `S` of at most n elements
SeqsUpTo(S, n) == UNION { [1..k -> S] : k \in 0..n }

\* the program's own variables while a function is examined on its own
ProgramIdle ==
    /\ payload = <<>>
    /\ mode = "Binary"
    /\ settings = Settings_new(50, 1, 10, 80, 50)
    /\ data = [bytes |-> <<>>, binary |-> <<>>, out_mode |-> "Binary"]
    /\ epc = "embed"
    /\ spool = <<>>
    /\ complete_frames = <<>>
    /\ joined = 0
    /\ video = <<>>
    /\ stream = <<>>
    /\ tamper = "none"
    /\ dpc = "idle"
    /\ dec = [out_mode |-> "Binary", final_frame |-> 0, final_byte |-> 0, size |-> 0,
              current_frame |-> 0, byte_data |-> <<>>]

progVars == << payload, mode, settings, data, epc, spool, complete_frames, joined,
               video, stream, tamper, dpc, dec >>

\* rip_binary(B) followed by translate_u8
BitsCalls ==
    { [fn |-> "rip_binary", stage |-> 0, input |-> B, mid |-> <<>>, out |-> <<>>] :
        B \in SeqsUpTo(UnitBytes, MaxUnitLen) }

CallRipBinary ==
    /\ call.fn = "rip_binary" /\ call.stage = 0
    /\ call' = [call EXCEPT !.stage = 1, !.mid = rip_binary(call.input)]
    /\ UNCHANGED progVars

CallTranslateU8 ==
    /\ call.fn = "rip_binary" /\ call.stage = 1
    /\ call' = [call EXCEPT !.stage = 2, !.out = translate_u8(call.mid)]
    /\ UNCHANGED progVars

\* words with and without leading zero bits (0, 1, 0x8000, 0xFFFF, 0x10000,
\* 0x80000000, 0xFFFFFFFF)
UnitWords ==
    { U32_MIN, U32(1), U32(32768), U32(65535), [hi |-> 1, lo |-> 0],
      [hi |-> 32768, lo |-> 0], U32_MAX }

\* rip_binary_u32(W) followed by translate_u32
WordsCalls ==
    { [fn |-> "rip_binary_u32", stage |-> 0, input |-> W, mid |-> <<>>, out |-> <<>>] :
        W \in SeqsUpTo(UnitWords, MaxUnitLen) }

CallRipBinaryU32 ==
    /\ call.fn = "rip_binary_u32" /\ call.stage = 0
    /\ call' = [call EXCEPT !.stage = 1, !.mid = rip_binary_u32(call.input)]
    /\ UNCHANGED progVars

CallTranslateU32 ==
    /\ call.fn = "rip_binary_u32" /\ call.stage = 1
    /\ call' = [call EXCEPT !.stage = 2, !.out = translate_u32(call.mid)]
    /\ UNCHANGED progVars

\* (size, width, height) of the canvases a single block is written on
UnitCanvases == { <<1, 2, 2>>, <<1, 4, 2>>, <<2, 4, 4>>, <<3, 7, 4>>, <<5, 10, 5>> }

\* channel values of the triples written
UnitChannels == {0, 90, 255}

\* etch_pixel(frame, rgb, x, y) on a fresh canvas followed by get_pixel(frame, x, y),
\* (x, y) running over the block-aligned positions of the active area
PixelCalls ==
    { [fn |-> "etch_pixel", stage |-> 0,
       input |-> [frame |-> EmbedSource_new(g[1], g[2], g[3], u), rgb |-> rgb,
                  x |-> x, y |-> y],
       mid |-> <<>>, out |-> <<>>] :
        g \in UnitCanvases, u \in UninitVals,
        rgb \in UnitChannels \X UnitChannels \X UnitChannels,
        x \in 0..9, y \in 0..4 }

CallEtchPixel ==
    /\ call.fn = "etch_pixel" /\ call.stage = 0
    /\ LET i == call.input
       IN  /\ i.x % i.frame.size = 0 /\ i.x < i.frame.actual_size.width
           /\ i.y % i.frame.size = 0 /\ i.y < i.frame.actual_size.height
           /\ call' = [call EXCEPT !.stage = 1, !.mid = etch_pixel(i.frame, i.rgb, i.x, i.y)]
    /\ UNCHANGED progVars

CallGetPixel ==
    /\ call.fn = "etch_pixel" /\ call.stage = 1
    /\ call' = [call EXCEPT !.stage = 2, !.out = get_pixel(call.mid, call.input.x, call.input.y)]
    /\ UNCHANGED progVars

\* what the video codec may add to a channel between etch and read
UnitOffsets == {-128, -127, -126, -1, 0, 1, 126, 127, 128}

\* a u8 channel after the codec added `d`: it stays within 0..255
Shifted(v, d) == IF v + d < 0 THEN 0 ELSE IF v + d > 255 THEN 255 ELSE v + d

\* every block of the image with (dr, dg, db) added to its channels
Perturb(frame, d) ==
    [frame EXCEPT !.image.blocks =
        [k \in 1..Len(@) |-> << Shifted(@[k][1], d[3]), Shifted(@[k][2], d[2]),
                                Shifted(@[k][3], d[1]) >>]]

\* etch_bw of one bit on a fresh canvas, the codec's offsets (dr, dg, db), then
\* read_bw of the frame
BwCalls ==
    { [fn |-> "etch_bw", stage |-> 0,
       input |-> [frame |-> EmbedSource_new(5, 10, 5, u), bit |-> bit, d |-> d],
       mid |-> <<>>, out |-> <<>>] :
        u \in UninitVals, bit \in BOOLEAN,
        d \in UnitOffsets \X {-127, 0, 127} \X {-127, 0, 127} }

CallEtchBw ==
    /\ call.fn = "etch_bw" /\ call.stage = 0
    /\ call' = [call EXCEPT !.stage = 1,
                            !.mid = etch_bw(call.input.frame, << call.input.bit >>, 0).source]
    /\ UNCHANGED progVars

CodecLoss ==
    /\ call.fn = "etch_bw" /\ call.stage = 1
    /\ call' = [call EXCEPT !.stage = 2, !.mid = Perturb(call.mid, call.input.d)]
    /\ UNCHANGED progVars

CallReadBw ==
    /\ call.fn = "etch_bw" /\ call.stage = 2
    /\ call' = [call EXCEPT !.stage = 3, !.out = read_bw(call.mid, 1, 2, 0).data]
    /\ UNCHANGED progVars

\* the units that fill a canvas of n blocks: 3n bytes in Color, n bits in Binary
FullFrameData(m, n) ==
    IF m = "Color" THEN [k \in 1..(3 * n) |-> PatternByte(165, k)]
    ELSE Take(rip_binary([k \in 1..((n + 7) \div 8) |-> PatternByte(165, k)]), n)

\* etch_color / etch_bw filling a fresh canvas, then read_color / read_bw of
\* it as frame current_frame of final_frame, with final_unit valid units
FrameCalls ==
    { [fn |-> "etch_frame", stage |-> 0,
       input |-> [frame |-> EmbedSource_new(g[1], g[2], g[3], u), out_mode |-> m,
                  data |-> FullFrameData(m, (g[2] \div g[1]) * (g[3] \div g[1])),
                  current_frame |-> c, final_frame |-> 2, final_unit |-> f],
       mid |-> <<>>, out |-> <<>>] :
        g \in UnitCanvases, u \in UninitVals, m \in OutputModes, c \in {1, 2}, f \in 0..2 }

CallEtchFrame ==
    /\ call.fn = "etch_frame" /\ call.stage = 0
    /\ LET i == call.input
           r == IF i.out_mode = "Color" THEN etch_color(i.frame, i.data, 0)
                ELSE etch_bw(i.frame, i.data, 0)
       IN  call' = [call EXCEPT !.stage = 1, !.mid = r.source]
    /\ UNCHANGED progVars

CallReadFrame ==
    /\ call.fn = "etch_frame" /\ call.stage = 1
    /\ LET i == call.input
       IN  call' = [call EXCEPT !.stage = 2,
                                !.out = IF i.out_mode = "Color"
                                        THEN read_color(call.mid, i.current_frame, i.final_frame, i.final_unit)
                                        ELSE read_bw(call.mid, i.current_frame, i.final_frame, i.final_unit)]
    /\ UNCHANGED progVars

\* heights, widths and block sides of the images handed to EmbedSource::from
UnitHeights == {2, 4, 5, 7, 50}
UnitWidths == {4, 7, 10, 80}
UnitSizes == {1, 2, 3, 5, 40}

\* EmbedSource::from(image, size, instuction)
FromCalls ==
    { [fn |-> "EmbedSource::from", stage |-> 0,
       input |-> [image |-> Mat_new_rows_cols(h, w, 1, 0), size |-> b, instuction |-> f],
       mid |-> <<>>, out |-> <<>>] :
        h \in UnitHeights, w \in UnitWidths, b \in UnitSizes, f \in BOOLEAN }

CallEmbedSourceFrom ==
    /\ call.fn = "EmbedSource::from" /\ call.stage = 0
    /\ call' = [call EXCEPT !.stage = 1,
                            !.out = EmbedSource_from(call.input.image, call.input.size,
                                                     call.input.instuction)]
    /\ UNCHANGED progVars

UnitCalls ==
    BitsCalls \cup WordsCalls \cup PixelCalls \cup BwCalls \cup FrameCalls \cup FromCalls

UnitInit ==
    /\ call \in UnitCalls
    /\ ProgramIdle

UnitNext ==
    \/ CallRipBinary
    \/ CallTranslateU8
    \/ CallRipBinaryU32
    \/ CallTranslateU32
    \/ CallEtchPixel
    \/ CallGetPixel
    \/ CallEtchBw
    \/ CodecLoss
    \/ CallReadBw
    \/ CallEtchFrame
    \/ CallReadFrame
    \/ CallEmbedSourceFrom

UnitSpec == UnitInit /\ [][UnitNext]_vars

\* ------------------------------------------------- runs taken as a whole
\* the loop of a worker's closure run to its end, every canvas allocated
\* with the same uninitialised byte
RECURSIVE WorkerLoop(_, _, _, _, _, _)
WorkerLoop(st, out_mode, chunk_copy, index, frames, uninit) ==
    LET source == EmbedSource_new(st.size, st.width, st.height, uninit)
        r == IF out_mode = "Color" THEN etch_color(source, chunk_copy, index)
             ELSE etch_bw(source, chunk_copy, index)
    IN  IF r.res = "Panic" THEN [res |-> "Panic", frames |-> frames]
        ELSE IF r.res = "Err" THEN [res |-> "Ok", frames |-> Append(frames, r.source)]
        ELSE WorkerLoop(st, out_mode, chunk_copy, r.global_index, Append(frames, r.source), uninit)

\* the payload frames etch collects for `d` under settings `st`
PayloadFrames(st, d, uninit) ==
    LET chunks == EtchChunks(st, d)
        runs == [k \in 1..Len(chunks) |-> WorkerLoop(st, d.out_mode, chunks[k], 0, <<>>, uninit)]
    IN  IF \E k \in 1..Len(runs) : runs[k].res = "Panic"
        THEN [res |-> "Panic", frames |-> <<>>]
        ELSE [res |-> "Ok", frames |-> Flatten([k \in 1..Len(runs) |-> runs[k].frames])]

\* the loop of read over the frames left in `frames`
RECURSIVE ReadLoop(_, _)
ReadLoop(frames, d) ==
    IF frames = <<>> THEN [res |-> "Ok", byte_data |-> d.byte_data]
    ELSE LET source == EmbedSource_from(Head(frames), d.size, FALSE)
         IN  IF source.res # "Ok" THEN [res |-> "Panic", byte_data |-> <<>>]
             ELSE LET frame_data == FrameData(source.source, d)
                  IN  IF frame_data.res # "Ok" THEN [res |-> "Panic", byte_data |-> <<>>]
                      ELSE ReadLoop(Tail(frames),
                                    [d EXCEPT !.byte_data = @ \o frame_data.data,
                                              !.current_frame = @ + 1])

\* the blocks of a canvas that carry payload: etch_color and etch_bw write
\* the scan from its first block on
Written(frame) == Take(frame.image.blocks, frame.written)

CeilDiv(a, b) == (a + b - 1) \div b

\* units per frame of the block grid: blocks_per_frame x 3 or x 1
UnitsPerFrame(st, m) == BlocksPerFrame(st) * UnitsPerBlock(m)

\* ------------------------------------------------------------ properties
\* Settings with block >= 1, width >= block, height >= block and workers >= 1
ValidSettings ==
    /\ settings.size >= 1
    /\ settings.width >= settings.size
    /\ settings.height >= settings.size
    /\ settings.threads >= 1

\* C1: Round-trip (Binary): for a non-empty payload and valid Settings, when
\* read returns on the video etch wrote in Binary mode, delivered unchanged,
\* it returns exactly the payload.
C1_RoundTripBinary ==
    (/\ mode = "Binary" /\ payload # <<>> /\ ValidSettings
     /\ tamper = "none" /\ dpc = "done")
        => dec.byte_data = payload

\* C2: Round-trip (Color): for a non-empty payload of any length and valid
\* Settings, when read returns on the video etch wrote in Color mode,
\* delivered unchanged, it returns exactly the payload.
C2_RoundTripColor ==
    (/\ mode = "Color" /\ payload # <<>> /\ ValidSettings
     /\ tamper = "none" /\ dpc = "done")
        => dec.byte_data = payload

\* C3: Worker-count invariance: the payload frames etch writes behind the
\* instruction frame are, in number, block contents and order, those of the
\* same payload and geometry etched with one worker.
C3_WorkerCountInvariance ==
    epc = "written" =>
        LET one == PayloadFrames([settings EXCEPT !.threads = 1], data, 0)
            got == Tail(complete_frames)
        IN  /\ one.res = "Ok"
            /\ [k \in 1..Len(got) |-> Written(got[k])]
                 = [k \in 1..Len(one.frames) |-> Written(one.frames[k])]

\* C4: Stream ordering under concurrency: the instruction frame is the
\* first frame of etch's list, and behind it come the frames of the workers
\* joined so far in spawn order, each worker's frames in the order it
\* produced them, the chunks in payload order; the video gets the list as is.
C4_StreamOrdering ==
    epc \in {"joining", "written"} =>
        /\ complete_frames[1].size = instruction_size
        /\ \A k \in 2..Len(complete_frames) : complete_frames[k].size = settings.size
        /\ Tail(complete_frames) = Flatten([k \in 1..joined |-> spool[k].frames])
        /\ Flatten([k \in 1..Len(spool) |-> spool[k].chunk_copy])
             = (IF data.out_mode = "Color" THEN data.bytes ELSE data.binary)
        /\ epc = "written" =>
              /\ joined = Len(spool)
              /\ video = [k \in 1..Len(complete_frames) |-> complete_frames[k].image]

\* a later worker has finished while an earlier one still runs, and etch
\* has already joined a worker
C4_Witness ==
    /\ epc = "joining"
    /\ joined >= 1
    /\ Len(complete_frames) >= 2
    /\ \E i, j \in 1..Len(spool) :
          i < j /\ spool[i].state = "running" /\ spool[j].state = "finished"

\* C5: Frame-count formula: the number of payload frames etch writes is
\* ceil(U / units_per_frame), U the payload's bytes (Color) or bits (Binary).
C5_FrameCount ==
    epc = "written" =>
        Len(complete_frames) - 1
          = CeilDiv(UnitCount(payload, mode), UnitsPerFrame(settings, mode))

\* C6: Instruction record values: the record of etch_instructions carries
\* final_frame = ceil(U / units_per_frame) and final_unit = U mod
\* units_per_frame; at 12 bytes per frame in Color (block 2, 4 x 4) that is
\* (2, 0) for 24 bytes and (2, 1) for 13 bytes.
C6_InstructionValues ==
    (epc \in {"joining", "written"} /\ ValidSettings) =>
        LET words == InstructionWords(settings, data)
            U == UnitCount(payload, mode)
        IN  /\ words[2] = U32(CeilDiv(U, UnitsPerFrame(settings, mode)))
            /\ words[3] = U32(U % UnitsPerFrame(settings, mode))
            /\ (mode = "Color" /\ settings.size = 2 /\ settings.width = 4
                /\ settings.height = 4 /\ Len(payload) = 24)
                  => (words[2] = U32(2) /\ words[3] = U32(0))
            /\ (mode = "Color" /\ settings.size = 2 /\ settings.width = 4
                /\ settings.height = 4 /\ Len(payload) = 13)
                  => (words[2] = U32(2) /\ words[3] = U32(1))

\* C7: Instruction framing round-trip: read_instructions on the frame
\* etch_instructions produced returns the mode, final_frame, final_unit and
\* block of the record.
C7_InstructionRoundTrip ==
    epc \in {"joining", "written"} =>
        LET words == InstructionWords(settings, data)
            r == read_instructions(complete_frames[1], 1)
        IN  /\ r.res = "Ok"
            /\ r.out_mode = data.out_mode
            /\ r.final_frame = AsI32(words[2])
            /\ r.final_byte = AsI32(words[3])
            /\ r.settings.size = AsI32(words[4])

\* C8: Instruction rejection: a first frame whose word 1 is neither
\* 0xFFFFFFFF nor 0, whose word 5 is not 0xFFFFFFFF or whose block word is 0
\* is rejected: read neither walks the payload frames nor returns a payload
\* nor panics.
C8_InstructionRejection ==
    tamper \in {"word1", "word4", "word5"} => dpc \notin {"loop", "done", "panic"}

\* C9: Truncated stream: read does not return a payload when the video ran
\* dry before payload frame number final_frame was read.
C9_Truncated ==
    (tamper = "truncated" /\ dpc = "done") => dec.current_frame - 1 >= dec.final_frame

\* C10: Trailing frames ignored: with a frame behind payload frame number
\* final_frame, read returns the bytes it returns without that frame.
C10_TrailingIgnored ==
    (/\ tamper = "trailing" /\ dpc = "done"
     /\ Len(video) - 1 >= dec.final_frame)
        => LET without == ReadLoop(Tail(video), [dec EXCEPT !.current_frame = 1,
                                                            !.byte_data = <<>>])
           IN  without.res = "Ok" /\ dec.byte_data = without.byte_data


\* C11: Bit-pack involution: translate_u8(rip_binary(B)) = B for every byte
\* sequence B; rip_binary gives exactly 8 bits a byte, most significant bit
\* first.
C11_BitPackInvolution ==
    (call.fn = "rip_binary" /\ call.stage = 2) =>
        /\ Len(call.mid) = 8 * Len(call.input)
        /\ \A k \in 1..Len(call.input) :
              call.mid[8 * (k - 1) + 1] = (call.input[k] >= 128)
        /\ call.out = call.input

\* a byte with seven leading zero bits and a full byte have gone through both
\* functions
C11_Witness ==
    /\ call.fn = "rip_binary" /\ call.stage = 2
    /\ call.input = << 1, 255 >>
    /\ call.out = << 1, 255 >>


\* C12: Word-pack involution: translate_u32(rip_binary_u32(W)) = W for every
\* sequence W of 32-bit words, 0x00000000 and 0xFFFFFFFF included;
\* rip_binary_u32 gives exactly 32 bits a word, most significant bit first.
C12_WordPackInvolution ==
    (call.fn = "rip_binary_u32" /\ call.stage = 2) =>
        /\ Len(call.mid) = 32 * Len(call.input)
        /\ \A k \in 1..Len(call.input) :
              /\ call.mid[32 * (k - 1) + 1] = (call.input[k].hi >= 32768)
              /\ call.mid[32 * k] = (call.input[k].lo % 2 = 1)
        /\ call.out = call.input

\* 0x00000000 followed by 0xFFFFFFFF has gone through both functions
C12_Witness ==
    /\ call.fn = "rip_binary_u32" /\ call.stage = 2
    /\ call.input = << U32_MIN, U32_MAX >>
    /\ call.out = << U32_MIN, U32_MAX >>


\* C13: Block idempotence: for every block-aligned (x, y) inside the active
\* area and every triple (r, g, b), etch_pixel(frame, [r, g, b], x, y)
\* followed by get_pixel(frame, x, y) on the unmodified frame returns exactly
\* (r, g, b), for every block size >= 1.
C13_BlockIdempotence ==
    (call.fn = "etch_pixel" /\ call.stage = 2) => call.out = call.input.rgb

\* a triple of three different channels was written to a block of side 3 that
\* is not the first of its canvas, over bytes that held something else, and
\* read back
C13_Witness ==
    /\ call.fn = "etch_pixel" /\ call.stage = 2
    /\ call.input.frame.size = 3 /\ call.input.x = 3
    /\ call.input.rgb = << 255, 90, 0 >>
    /\ call.input.frame.image.blocks[2] = << 255, 255, 255 >>
    /\ call.out = << 255, 90, 0 >>


\* the largest offset the codec put on a channel of the block
Delta(d) ==
    LET abs(v) == IF v < 0 THEN -v ELSE v
        m(a, b) == IF a > b THEN a ELSE b
    IN  m(abs(d[1]), m(abs(d[2]), abs(d[3])))

C15_EmptyPayloadRejected ==
    payload = <<>> =>
        /\ epc \in {"embed", "error"}
        /\ spool = <<>>
        /\ complete_frames = <<>>
        /\ video = <<>>

\* run_embed has returned the error of rip_bytes on an empty file
C15_Witness == payload = <<>> /\ epc = "error" /\ spool = <<>> /\ video = <<>>


\* the active area is empty: block > width or block > height
EmptyActiveArea == settings.size > settings.width \/ settings.size > settings.height

\* C16: Geometry error: an encode whose block/frame-size relation leaves the
\* active area empty (block > width or block > height) terminates with a
\* Geometry error and produces no payload frames: no worker pushes a frame,
\* etch does not panic and writes no video.
C16_GeometryError ==
    (EmptyActiveArea /\ payload # <<>>) =>
        /\ epc \notin {"panic", "written"}
        /\ \A i \in 1..Len(spool) : spool[i].frames = <<>>
        /\ Len(complete_frames) <= 1


\* C17: Muxer only after fan-in: etch opens and writes the video writer only
\* after every spawned worker thread has been joined; no frame (not even the
\* instruction frame) is written while a worker is still running, so a
\* failing worker leaves no partially written video.
C17_MuxerAfterFanIn ==
    /\ video # <<>> =>
          /\ joined = Len(spool)
          /\ \A i \in 1..Len(spool) : spool[i].state = "finished"
          /\ Len(video) = 1 + Len(Flatten([i \in 1..Len(spool) |-> spool[i].frames]))
    /\ (epc = "panic" \/ \E i \in 1..Len(spool) : spool[i].state # "finished") => video = <<>>

\* the video was written after two or more workers were joined
C17_Witness ==
    /\ epc = "written" /\ video # <<>>
    /\ Len(spool) >= 2 /\ joined = Len(spool)


\* C18: final_unit = 0 sentinel: when the frame being read is the final frame
\* (current_frame == final_frame) and final_unit is 0, read_bw and read_color
\* return the observations of all blocks of the frame (the full frame), not
\* an empty sequence.
C18_FinalUnitZero ==
    (/\ call.fn = "etch_frame" /\ call.stage = 2
     /\ call.input.current_frame = call.input.final_frame
     /\ call.input.final_unit = 0) =>
        /\ call.out.res = "Ok"
        /\ call.out.data = call.input.data


\* the observations of every block of a frame read with block side `size`:
\* bytes in Color, bits in Binary
FrameUnits(frame, size, m) ==
    LET source == EmbedSource_from(frame, size, FALSE).source
    IN  IF m = "Color" THEN read_color(source, 1, 2, 0).data
        ELSE read_bw(source, 1, 2, 0).data

\* the bytes the given units add to read's output: the bytes themselves in
\* Color, the bits packed 8 at a time in Binary
UnitsAsBytes(units, m) == IF m = "Color" THEN units ELSE translate_u8(units)

\* C19: Final-frame truncation in both modes: in Color as well as Binary
\* mode, read treats payload frame k as final exactly when k equals
\* final_frame from the instruction record, and that frame then contributes
\* only its first final_unit units (bytes in Color, bits in Binary) to the
\* output when final_unit > 0; every other frame contributes all its units.
C19_FinalFrameTruncation ==
    [][ (/\ dpc = "loop" /\ dpc' = "loop"
         /\ dec'.current_frame = dec.current_frame + 1
         /\ dec.final_byte > 0) =>
            LET k == dec.current_frame
                units == FrameUnits(stream[k + 1], dec.size, dec.out_mode)
                kept == IF k = dec.final_frame THEN Take(units, dec.final_byte) ELSE units
            IN  dec'.byte_data = dec.byte_data \o UnitsAsBytes(kept, dec.out_mode) ]_vars


\* the bits of the payload frames in stream order, frame final_frame cut to
\* its first final_byte bits (0: the frame is full)
AccumulatedBits(frames, d) ==
    Flatten([k \in 1..Len(frames) |->
                LET units == FrameUnits(frames[k], d.size, "Binary")
                IN  IF k = d.final_frame /\ d.final_byte > 0
                    THEN Take(units, d.final_byte)
                    ELSE units])

\* C20: Binary repacking over the accumulated stream: in Binary mode the
\* bytes returned by read equal the bits of all payload frames concatenated
\* in stream order (final frame truncated to final_unit) and then packed 8 at
\* a time; the bits of a byte that straddles two consecutive frames are
\* kept, for every number of blocks per frame.
C20_BinaryRepacking ==
    (dpc = "done" /\ dec.out_mode = "Binary" /\ tamper = "none") =>
        dec.byte_data = translate_u8(AccumulatedBits(Tail(stream), dec))


\* C21: Per-frame capacity matches the grid: the per-frame unit count that
\* etch uses to size worker chunks, and that etch_instructions uses for
\* final_frame and final_unit, equals the number of blocks a frame's scan
\* writes, (width'/block) x (height'/block), times 3 in Color and times 1
\* in Binary, also when width or height is not a multiple of block.
C21_FrameCapacity ==
    (epc \in {"spawned", "joining", "written"} /\ ValidSettings) =>
        /\ FrameDataSize(settings, data.out_mode) = UnitsPerFrame(settings, data.out_mode)
        /\ InstructionFrameDataSize(settings) = UnitsPerFrame(settings, data.out_mode)


\* the units carried by the blocks a worker wrote, in scan order, frame
\* after frame: r, g, b of every block in Color, the white blocks as 1 in
\* Binary
WorkerUnits(frames, m) ==
    Flatten([k \in 1..Len(frames) |->
                LET blocks == Written(frames[k])
                IN  IF m = "Color"
                    THEN Flatten([j \in 1..Len(blocks) |->
                                     << blocks[j][3], blocks[j][2], blocks[j][1] >>])
                    ELSE [j \in 1..Len(blocks) |-> blocks[j][3] = 255]])

\* C22: A worker encodes its whole chunk: when a worker's loop ends, the
\* blocks it wrote, read in row-major scan order frame after frame, give
\* back every unit of its chunk in order; no byte (Color) or bit (Binary) of
\* the chunk is left unwritten, including Color chunks whose length is not a
\* multiple of 3.
C22_WholeChunk ==
    \A i \in 1..Len(spool) :
        spool[i].state = "finished" =>
            WorkerUnits(spool[i].frames, data.out_mode) = spool[i].chunk_copy


\* C23: No empty trailing frame: a worker never emits a frame that carries
\* zero payload units; when its chunk exactly fills its last frame, the
\* worker stops after that frame and does not allocate and push a further,
\* empty frame.
C23_NoEmptyFrame ==
    ValidSettings =>
        \A i \in 1..Len(spool) :
            /\ \A k \in 1..Len(spool[i].frames) : spool[i].frames[k].written >= 1
            /\ (spool[i].state = "finished" /\ data.out_mode = "Binary") =>
                  Len(spool[i].frames)
                    = CeilDiv(Len(spool[i].chunk_copy), BlocksPerFrame(settings))

\* a worker has finished a chunk of bits that exactly fills its last frame
C23_Witness ==
    /\ ValidSettings /\ data.out_mode = "Binary"
    /\ \E i \in 1..Len(spool) :
          /\ spool[i].state = "finished"
          /\ Len(spool[i].chunk_copy) % BlocksPerFrame(settings) = 0
          /\ spool[i].frames[Len(spool[i].frames)].written = BlocksPerFrame(settings)


\* unit k (from 0) of the data of a frame as the triple (r, g, b) of its block
UnitTriple(units, k, m) ==
    IF m = "Color" THEN << units[3 * k + 1], units[3 * k + 2], units[3 * k + 3] >>
    ELSE IF units[k + 1] THEN << 255, 255, 255 >> ELSE << 0, 0, 0 >>

\* C24: Row-major scan on both sides: the writer puts unit k of a frame (k
\* from 0) into the block at grid column k mod (width'/block) and grid row
\* k div (width'/block), and the reader collects the block observations in
\* the same order; the bits 10100101 on a 4x2 grid with block 1 give white,
\* black, white, black in row 0 and black, white, black, white in row 1.
C24_RowMajor ==
    (call.fn = "etch_frame" /\ call.stage >= 1) =>
        LET i == call.input
            size == i.frame.size
            columns == i.frame.actual_size.width \div size
            rows == i.frame.actual_size.height \div size
            white == << 255, 255, 255 >>
            black == << 0, 0, 0 >>
        IN  /\ \A k \in 0..(columns * rows - 1) :
                  get_pixel(call.mid, (k % columns) * size, (k \div columns) * size)
                    = UnitTriple(i.data, k, i.out_mode)
            /\ (call.stage = 2 /\ i.current_frame # i.final_frame) =>
                  call.out.data = i.data
            /\ (i.out_mode = "Binary" /\ size = 1 /\ columns = 4 /\ rows = 2) =>
                  /\ i.data = << TRUE, FALSE, TRUE, FALSE, FALSE, TRUE, FALSE, TRUE >>
                  /\ get_pixel(call.mid, 0, 0) = white /\ get_pixel(call.mid, 1, 0) = black
                  /\ get_pixel(call.mid, 2, 0) = white /\ get_pixel(call.mid, 3, 0) = black
                  /\ get_pixel(call.mid, 0, 1) = black /\ get_pixel(call.mid, 1, 1) = white
                  /\ get_pixel(call.mid, 2, 1) = black /\ get_pixel(call.mid, 3, 1) = white

\* the bits 10100101 were written on the 4x2 grid of block 1 and read back
C24_Witness ==
    /\ call.fn = "etch_frame" /\ call.stage = 2
    /\ call.input.out_mode = "Binary" /\ call.input.frame.size = 1
    /\ call.input.frame.actual_size = Size_new(4, 2)
    /\ call.input.current_frame # call.input.final_frame
    /\ call.out.data = << TRUE, FALSE, TRUE, FALSE, FALSE, TRUE, FALSE, TRUE >>


\* blocks of 5x5 pixels an instruction frame of the Settings holds
InstructionBlocks(st) ==
    ((st.width - (st.width % instruction_size)) \div instruction_size)
    * ((st.height - (st.height % instruction_size)) \div instruction_size)

\* C25: Instruction write failure is fatal: if the 160 instruction bits
\* cannot all be written onto the instruction frame (the frame holds fewer
\* than 160 blocks of 5x5 pixels), etch_instructions, and with it etch, fails
\* with an error rather than returning a frame that carries an incomplete
\* record.
C25_InstructionWriteFatal ==
    /\ InstructionBlocks(settings) < 32 * instruction_size => epc \notin {"joining", "written"}
    /\ epc \in {"joining", "written"} => complete_frames[1].written = 32 * instruction_size


\* C26: Canvas adoption check: EmbedSource::from returns an error and no
\* canvas when the image height is not a multiple of block and the
\* instruction flag is false; with the instruction flag true it accepts any
\* height, and in every accepted case actual_size is (width - width mod
\* block, height - height mod block).
C26_CanvasAdoption ==
    (call.fn = "EmbedSource::from" /\ call.stage = 1) =>
        LET i == call.input
            width == i.image.cols
            height == i.image.rows
        IN  IF height % i.size # 0 /\ ~i.instuction
            THEN call.out.res = "Err" /\ DOMAIN call.out = {"res"}
            ELSE /\ call.out.res = "Ok"
                 /\ call.out.source.image = i.image
                 /\ call.out.source.size = i.size
                 /\ call.out.source.actual_size
                      = Size_new(width - (width % i.size), height - (height % i.size))

\* an instruction frame of height 7 was adopted with block 5
C26_Witness ==
    /\ call.fn = "EmbedSource::from" /\ call.stage = 1
    /\ call.input.instuction /\ call.input.size = 5
    /\ call.input.image.rows = 7 /\ call.input.image.cols = 7
    /\ call.out.res = "Ok" /\ call.out.source.actual_size = Size_new(5, 5)


\* the units etch cuts into chunks: data.bytes in Color, data.binary in Binary
DataUnits(d) == IF d.out_mode = "Color" THEN d.bytes ELSE d.binary

\* C27: Partition well-formedness: for any non-empty payload and workers >=
\* 1, the chunks etch hands to worker threads are non-empty, contiguous and
\* non-overlapping, concatenate in spawn order to exactly the payload, and
\* number at least 1 and at most `workers`.
C27_PartitionWellFormed ==
    (ValidSettings /\ payload # <<>> /\ epc \notin {"embed", "etch", "error"}) =>
        /\ Len(spool) >= 1
        /\ Len(spool) <= settings.threads
        /\ \A i \in 1..Len(spool) : spool[i].chunk_copy # <<>>
        /\ Flatten([i \in 1..Len(spool) |-> spool[i].chunk_copy]) = DataUnits(data)
        /\ DataUnits(data) = IF mode = "Color" THEN payload ELSE rip_binary(payload)

\* etch has cut the data into as many chunks as there are threads, two or
\* more
C27_Witness ==
    /\ ValidSettings /\ epc = "spawned"
    /\ settings.threads >= 2 /\ Len(spool) = settings.threads
    /\ Len(spool[Len(spool)].chunk_copy) < Len(spool[1].chunk_copy)


\* C28: Only the last frame may be partial: in the concatenated payload-frame
\* sequence, for every worker count and every valid geometry, every payload
\* frame except the very last of the stream has all blocks of its
\* active-area grid written with payload units; no worker other than the
\* last leaves a partially filled frame in the middle of the stream.
C28_OnlyLastPartial ==
    (epc = "written" /\ ValidSettings) =>
        \A k \in 2..(Len(complete_frames) - 1) :
            complete_frames[k].written = BlocksPerFrame(settings)


\* C29: Worker termination: for any non-empty chunk and settings with 1 <=
\* block <= width and block <= height, every call of etch_color/etch_bw on a
\* fresh canvas consumes at least one unit, so each worker's frame loop ends
\* after finitely many frames (at most one frame a unit of its chunk) and
\* etch joins all workers: no turn of a worker's loop leaves the index where
\* it was or ends the thread by a panic, and etch does not panic in join.
C29_WorkerTermination ==
    [][ ValidSettings =>
            /\ \A i \in 1..Len(spool) :
                  spool'[i] # spool[i] =>
                      /\ spool'[i].index > spool[i].index
                      /\ spool'[i].state # "panicked"
                      /\ Len(spool'[i].frames) <= Len(spool[i].chunk_copy)
            /\ epc' # "panic" ]_vars

\* C30: No out-of-range read in Color writes: etch_color never reads a chunk
\* index >= the chunk's length; for every non-empty chunk that etch can hand
\* to a worker, including a short last chunk of 1 or 2 bytes, each block
\* write reads three bytes that exist (no worker thread ends by the panic of
\* an index out of bounds).
C30_NoOutOfRangeRead ==
    data.out_mode = "Color" =>
        \A i \in 1..Len(spool) :
            /\ spool[i].chunk_copy # <<>>
            /\ spool[i].state # "panicked"

=============================================================================
